---- MODULE Spec2Model ----
(***************************************************************************)
(* Fill-in estimation of RXMesh's NDReorder application:                   *)
(*   - count_nnz_fillin(mat): the elimination-tree counter                 *)
(*     (apps/NDReorder/count_nnz_fillin.h, lines 91-130);                  *)
(*   - count_nnz_fillin(eigen_mat, h_permute, st): the Cholesky oracle     *)
(*     (same file, lines 30-84) with its export exportToPlainText;         *)
(*   - is_unique_permutation (include/rxmesh/matrix/permute_util.h).       *)
(* Matrices are sparsity patterns: numeric values never influence any of   *)
(* the counts, and the one place they matter (whether the numeric          *)
(* factorization succeeds) is an input of the oracle call.                 *)
(***************************************************************************)
EXTENDS Integers, Sequences, FiniteSets, TLC

\* ------------------------------------------------------------------ bounds
\* Spec scores every symmetric pattern of order 1 .. MaxN: under every
\* permutation up to order MaxPermN, under the identity and the reversal above
MaxN == 4
MaxPermN == 3
\* the same two bounds for SpecRepeat
MaxRepeatN == 3
MaxRepeatPermN == 2
\* largest order, and largest number of stored entries, of the CSR inputs
\* of the step-by-step sweep SpecSweep
MaxSweepN == 3
MaxSweepNnz == 4
\* largest size argument handed to is_unique_permutation; arrays hold up to
\* MaxSize + 1 entries with values in -1 .. MaxSize
MaxSize == 3

VARIABLES
    eigen_mat,   \* oracle input: [rows, nz], nz the stored (row, col) pairs
    h_permute,   \* oracle input: h_permute[i] is the new index of i
    mat,         \* counter input: rxmesh::SparseMatrix in CSR [rows, row_ptr, col_idx]
    etree,       \* frame of count_nnz_fillin(mat): its locals and return value
    chol,        \* frame and effects of count_nnz_fillin(eigen_mat, h_permute, st)
    memo,        \* a fill count the caller kept from an earlier call, with its input
    uniq         \* frame of is_unique_permutation: arguments, sorted copy, result

vars == <<eigen_mat, h_permute, mat, etree, chol, memo, uniq>>

\* ----------------------------------------------------------------- helpers
\* a zero-based array of length n holding v everywhere (std::vector<int> x(n))
Filled(n, v) == [k \in 0 .. n - 1 |-> v]

\* f[0] + ... + f[n-1]
RECURSIVE SumTo(_, _)
SumTo(f, n) == IF n = 0 THEN 0 ELSE f[n - 1] + SumTo(f, n - 1)

\* the bijections of 0 .. n-1, as zero-based arrays
Permutations0(n) ==
    {p \in [0 .. n - 1 -> 0 .. n - 1] : \A a, b \in 0 .. n - 1 : p[a] = p[b] => a = b}

Identity(n) == [k \in 0 .. n - 1 |-> k]

Reversal(n) == [k \in 0 .. n - 1 |-> n - 1 - k]

\* the permutations tried at order n when every permutation is tried up to
\* order k
Orderings(n, k) ==
    IF n <= k THEN Permutations0(n) ELSE {Identity(n), Reversal(n)}

\* -------------------------------------------------- sparse matrix patterns
StrictLower(n) == {e \in (0 .. n - 1) \X (0 .. n - 1) : e[2] < e[1]}

Diagonal(n) == {<<k, k>> : k \in 0 .. n - 1}

Mirror(S) == {<<e[2], e[1]>> : e \in S}

\* the symmetric patterns of order n: any set of off-diagonal positions with
\* its mirror image, the diagonal stored or not
SymmetricPatterns(n) ==
    {L \cup Mirror(L) \cup D : L \in SUBSET StrictLower(n), D \in {{}, Diagonal(n)}}

LowerTriangle(S) == {e \in S : e[2] <= e[1]}

\* entry (r, c) moved to (P[r], P[c])
Relabel(S, P) == {<<P[e[1]], P[e[2]]>> : e \in S}

\* the column indices of S in CSR order, scanning positions k = r * n + c
RECURSIVE ColumnsFrom(_, _, _)
ColumnsFrom(n, S, k) ==
    IF k = n * n THEN <<>>
    ELSE IF <<k \div n, k % n>> \in S
         THEN <<k % n>> \o ColumnsFrom(n, S, k + 1)
         ELSE ColumnsFrom(n, S, k + 1)

\* the CSR storage of pattern S of order n, column indices ascending in a row
ToCSR(n, S) ==
    LET cols == ColumnsFrom(n, S, 0)
    IN  [rows    |-> n,
         row_ptr |-> [k \in 0 .. n |-> Cardinality({e \in S : e[1] < k})],
         col_idx |-> [j \in 0 .. Len(cols) - 1 |-> cols[j + 1]]]

NoMatrix == [rows |-> 0, row_ptr |-> Filled(1, 0), col_idx |-> Filled(0, 0)]

\* ------------------------------------- count_nnz_fillin(mat), lines 91-130
\* no call of the counter is in progress or has returned
NoFrame ==
    [pc             |-> "none",
     size           |-> 0,
     r              |-> 0,
     i              |-> 0,
     end            |-> 0,
     c              |-> 0,
     parent         |-> Filled(0, 0),
     tags           |-> Filled(0, 0),
     nonZerosPerCol |-> Filled(0, 0),
     nnz            |-> 0,
     ret            |-> -1]

\* FreshLocals with nnz a static counter: it keeps the last call's value
StaticCounter(size) ==
    [pc             |-> "row",
     size           |-> size,
     r              |-> 0,
     i              |-> 0,
     end            |-> 0,
     c              |-> 0,
     parent         |-> Filled(size, 0),
     tags           |-> Filled(size, 0),
     nonZerosPerCol |-> Filled(size, 0),
     nnz            |-> etree.nnz,
     ret            |-> -1]

\* lines 94-99: the three vectors are value-initialised, nnz starts at 0
FreshLocals(size) ==
    [pc             |-> "row",
     size           |-> size,
     r              |-> 0,
     i              |-> 0,
     end            |-> 0,
     c              |-> 0,
     parent         |-> Filled(size, 0),
     tags           |-> Filled(size, 0),
     nonZerosPerCol |-> Filled(size, 0),
     nnz            |-> 0,
     ret            |-> -1]

\* RowInit without parent[r] = -1
RowInitKeepsParent(m, s) ==
    [s EXCEPT !.tags[s.r]           = s.r,
              !.nonZerosPerCol[s.r] = 0,
              !.i                   = m.row_ptr[s.r],
              !.end                 = m.row_ptr[s.r + 1],
              !.pc                  = "entry"]

\* RowInit without tags[r] = r
RowInitKeepsTag(m, s) ==
    [s EXCEPT !.parent[s.r]         = -1,
              !.nonZerosPerCol[s.r] = 0,
              !.i                   = m.row_ptr[s.r],
              !.end                 = m.row_ptr[s.r + 1],
              !.pc                  = "entry"]

\* lines 103-108: the slots of row r are set, the row's extent is read
RowInit(m, s) ==
    [s EXCEPT !.parent[s.r]         = -1,
              !.tags[s.r]           = s.r,
              !.nonZerosPerCol[s.r] = 0,
              !.i                   = m.row_ptr[s.r],
              !.end                 = m.row_ptr[s.r + 1],
              !.pc                  = "entry"]

\* Return without the doubling
ReturnUndoubled(s) == [s EXCEPT !.ret = s.nnz + s.size, !.pc = "done"]

\* line 129
Return(s) == [s EXCEPT !.ret = 2 * s.nnz + s.size, !.pc = "done"]

\* FindParent without the test: the parent is overwritten by every row
FindParentOverwrite(s) == [s EXCEPT !.parent[s.c] = s.r]

\* FindParent left out: a parent is never determined
FindParentMissing(s) == s

\* lines 117-118
FindParent(s) ==
    IF s.parent[s.c] = -1 THEN [s EXCEPT !.parent[s.c] = s.r] ELSE s

\* CountNonZero without nnz++
CountNonZeroColumnOnly(s) ==
    [s EXCEPT !.nonZerosPerCol[s.c] = s.nonZerosPerCol[s.c] + 1]

\* lines 119-120
CountNonZero(s) ==
    [s EXCEPT !.nonZerosPerCol[s.c] = s.nonZerosPerCol[s.c] + 1,
              !.nnz                 = s.nnz + 1]

\* MarkVisited left out
MarkVisitedMissing(s) == s

\* line 121
MarkVisited(s) == [s EXCEPT !.tags[s.c] = s.r]

\* line 115, the loop's increment: c = parent[c]
Climb(s) == [s EXCEPT !.c = s.parent[s.c]]

\* line 115: the loop's test
Flagged(s) == s.tags[s.c] = s.r

\* one pass through the body of the walk, lines 115-122
WalkBody(s) == Climb(MarkVisited(CountNonZero(FindParent(s))))

\* line 101: the row loop's test, then lines 103-108 or line 129
RowStep(m, s) == IF s.r < s.size THEN RowInit(m, s) ELSE Return(s)

\* lines 110-113: the entry loop's test, the read of col_idx, the filter c < r
EntryStep(m, s) ==
    IF s.i < s.end
    THEN LET c == m.col_idx[s.i]
         IN  IF c < s.r
             THEN [s EXCEPT !.c = c, !.pc = "walk"]
             ELSE [s EXCEPT !.c = c, !.i = s.i + 1]
    ELSE [s EXCEPT !.r = s.r + 1, !.pc = "row"]

\* line 115: the walk's test, then its body or the next entry
WalkStep(s) ==
    IF ~Flagged(s) THEN WalkBody(s) ELSE [s EXCEPT !.i = s.i + 1, !.pc = "entry"]

\* one step of the sweep
Step(m, s) ==
    CASE s.pc = "row"   -> RowStep(m, s)
      [] s.pc = "entry" -> EntryStep(m, s)
      [] s.pc = "walk"  -> WalkStep(s)
      [] OTHER          -> s

RECURSIVE Sweep(_, _)
Sweep(m, s) == IF s.pc = "done" THEN s ELSE Sweep(m, Step(m, s))

\* the whole call
CountNnzFillin(m) == Sweep(m, FreshLocals(m.rows))

\* --------------- count_nnz_fillin(eigen_mat, h_permute, st), lines 30-84
\* lines 43-47: the permutation matrix's indices are copied from h_permute
PermIndices(rows, hp) == [k \in 0 .. rows - 1 |-> hp[k]]

\* Eigen::internal::permute_symm_to_fullsymm<Eigen::Lower, false>: every
\* stored entry (i, j) of the lower triangle is placed at (perm[i], perm[j])
\* and mirrored, a diagonal entry once; the upper triangle is not read
PermuteSymmToFullSymm(nz, perm) ==
    LET lower == LowerTriangle(nz)
    IN  Relabel(lower, perm) \cup Mirror(Relabel(lower, perm))

\* symbolic elimination of nodes k, k+1, ..., n-1 of the graph E (pairs
\* (i, j) with j < i): eliminating k joins its higher neighbours pairwise
RECURSIVE Eliminate(_, _, _)
Eliminate(n, k, E) ==
    IF k = n THEN E
    ELSE LET nb == {i \in k + 1 .. n - 1 : <<i, k>> \in E}
         IN  Eliminate(n, k + 1, E \cup {e \in nb \X nb : e[2] < e[1]})

\* Eigen::SimplicialLLT<..., Eigen::Lower, Eigen::NaturalOrdering<int>>:
\* the pattern of matrixL(), the filled strict lower triangle and the diagonal
MatrixL(n, A) == Eliminate(n, 0, {e \in A : e[2] < e[1]}) \cup Diagonal(n)

NoChol ==
    [pc           |-> "none",
     permuted_mat |-> {},
     is_open      |-> FALSE,
     file         |-> {},
     cerr         |-> <<>>,
     calls        |-> <<>>,
     info         |-> "Success",
     lower_nnz    |-> 0,
     ret          |-> 0]

\* exportToPlainText, lines 8-24: one "row+1 col+1 value" line per stored
\* entry, or a diagnostic and nothing written when the file does not open
ExportToPlainText(f, m, opens) ==
    IF ~opens
    THEN [f EXCEPT !.is_open = FALSE,
                   !.cerr    = Append(f.cerr, "Error opening file"),
                   !.calls   = Append(f.calls, "open")]
    ELSE [f EXCEPT !.is_open = TRUE,
                   !.file    = {<<e[1] + 1, e[2] + 1>> : e \in m},
                   !.calls   = Append(f.calls, "open")]

\* lines 59-63: solver.compute(permuted_mat); info is what solver.info() says
Compute(f, info) ==
    [f EXCEPT !.info = info, !.calls = Append(f.calls, "compute")]

\* lines 65-71
Failed(f) ==
    [f EXCEPT !.cerr = Append(f.cerr, "Cholesky decomposition with reorder failed"),
              !.ret  = -1,
              !.pc   = "done"]

\* lines 74-83
Counted(f, rows) ==
    LET lower_mat == MatrixL(rows, f.permuted_mat)
        lower_nnz == Cardinality(lower_mat) - rows
    IN  [f EXCEPT !.lower_nnz = lower_nnz,
                  !.ret       = 2 * lower_nnz + rows,
                  !.pc        = "done"]

\* Result that gives up when the export file did not open
ResultNeedsExport(f, rows) ==
    IF f.info # "Success" \/ ~f.is_open THEN Failed(f) ELSE Counted(f, rows)

\* lines 65-83: the return value
Result(f, rows) == IF f.info # "Success" THEN Failed(f) ELSE Counted(f, rows)

\* the whole call; opens: whether st + ".txt" can be opened, info: the
\* outcome of the numeric factorization
CountNnzFillinOracle(em, hp, opens, info) ==
    LET perm == PermIndices(em.rows, hp)
        f0   == [NoChol EXCEPT !.permuted_mat = PermuteSymmToFullSymm(em.nz, perm)]
        f1   == ExportToPlainText(f0, f0.permuted_mat, opens)
    IN  Result(Compute(f1, info), em.rows)

\* ------------------------ is_unique_permutation, permute_util.h lines 13-28
\* the values an entry of a candidate array may hold: in range, negative,
\* too large
Candidates(n) == -1 .. n

\* lines 16-17: size entries are copied from h_permute; entries read past
\* the end of a shorter array are whatever the memory holds (beyond)
CopyIn(size, hp, len, beyond) ==
    [k \in 1 .. size |-> IF k - 1 < len THEN hp[k - 1] ELSE beyond[k - 1]]

RECURSIVE Insert(_, _)
Insert(x, q) ==
    IF q = <<>> THEN <<x>>
    ELSE IF x <= Head(q) THEN <<x>> \o q
         ELSE <<Head(q)>> \o Insert(x, Tail(q))

\* Sort left out
SortMissing(q) == q

\* line 19: std::sort, ascending
RECURSIVE Sort(_)
Sort(q) == IF q = <<>> THEN <<>> ELSE Insert(Head(q), Sort(Tail(q)))

\* lines 21-27: the first index that differs from its entry decides
RECURSIVE MatchesIndexFrom(_, _)
MatchesIndexFrom(permute, i) ==
    IF i >= Len(permute) THEN TRUE
    ELSE IF i # permute[i + 1] THEN FALSE
         ELSE MatchesIndexFrom(permute, i + 1)

NoUniq == [pc |-> "none", size |-> 0, len |-> 0, h_permute |-> <<>>,
           permute |-> <<>>, ret |-> FALSE]

\* the whole call on an array of len entries
IsUniquePermutation(size, hp, len, beyond) ==
    LET permute == Sort(CopyIn(size, hp, len, beyond))
    IN  [pc        |-> "done",
         size      |-> size,
         len       |-> len,
         h_permute |-> hp,
         permute   |-> permute,
         ret       |-> MatchesIndexFrom(permute, 0)]

NoMemo == [set |-> FALSE, interleaved |-> FALSE, mat |-> NoMatrix, ret |-> 0]

\* ------------------------------------------------------------ Init, actions
Init ==
    /\ eigen_mat = [rows |-> 0, nz |-> {}]
    /\ h_permute = Filled(0, 0)
    /\ mat = NoMatrix
    /\ etree = NoFrame
    /\ chol = NoChol
    /\ memo = NoMemo
    /\ uniq = NoUniq

NoInput == eigen_mat.rows = 0

\* the caller builds the inputs of both scoring paths from a symmetric
\* pattern M and a permutation P: the oracle gets (M, P), M stored with both
\* triangles or as its lower triangle; the counter gets M relabeled by P in
\* full CSR
Prepare(N, K) ==
    /\ NoInput
    /\ \E n \in 1 .. N :
         \E M \in SymmetricPatterns(n), P \in Orderings(n, K) :
           /\ \E stored \in {M, LowerTriangle(M)} :
                eigen_mat' = [rows |-> n, nz |-> stored]
           /\ h_permute' = P
           /\ mat' = ToCSR(n, Relabel(M, P))
    /\ UNCHANGED <<etree, chol, memo, uniq>>

\* the caller drops the inputs; the frames of the finished calls are gone
Release ==
    /\ ~NoInput
    /\ eigen_mat' = [rows |-> 0, nz |-> {}]
    /\ h_permute' = Filled(0, 0)
    /\ mat' = NoMatrix
    /\ etree' = NoFrame
    /\ chol' = NoChol
    /\ UNCHANGED <<memo, uniq>>

FastCall ==
    /\ ~NoInput
    /\ etree' = CountNnzFillin(mat)
    /\ memo' = IF memo.set /\ memo.mat # mat
               THEN [memo EXCEPT !.interleaved = TRUE]
               ELSE memo
    /\ UNCHANGED <<eigen_mat, h_permute, mat, chol, uniq>>

OracleCall ==
    /\ ~NoInput
    /\ \E opens \in BOOLEAN, info \in {"Success", "NumericalIssue"} :
         chol' = CountNnzFillinOracle(eigen_mat, h_permute, opens, info)
    /\ UNCHANGED <<eigen_mat, h_permute, mat, etree, memo, uniq>>

Next == Prepare(MaxN, MaxPermN) \/ FastCall \/ OracleCall \/ Release

Spec == Init /\ [][Next]_vars

\* ------------------------------------------------- scoring again and again
\* the caller keeps the fill count it just got, with the input it was for
Remember ==
    /\ etree.pc = "done"
    /\ ~NoInput
    /\ memo' = [set |-> TRUE, interleaved |-> FALSE, mat |-> mat, ret |-> etree.ret]
    /\ UNCHANGED <<eigen_mat, h_permute, mat, etree, chol, uniq>>

NextRepeat ==
    Prepare(MaxRepeatN, MaxRepeatPermN) \/ FastCall \/ Remember \/ Release

SpecRepeat == Init /\ [][NextRepeat]_vars

\* ------------------------------------------------- validating a permutation
Validate ==
    /\ uniq.pc = "none"
    /\ \E size \in 0 .. MaxSize, len \in 0 .. MaxSize + 1 :
         /\ len >= size
         /\ \E hp \in [0 .. len - 1 -> Candidates(MaxSize)] :
              uniq' = IsUniquePermutation(size, hp, len, <<>>)
    /\ UNCHANGED <<eigen_mat, h_permute, mat, etree, chol, memo>>

\* the array holds fewer than size entries: the copy of line 17 reads past
\* its end, and the entries it finds there are arbitrary
ValidateShort ==
    /\ uniq.pc = "none"
    /\ \E size \in 0 .. MaxSize, len \in 0 .. MaxSize + 1 :
         /\ len < size
         /\ \E hp \in [0 .. len - 1 -> Candidates(MaxSize)],
               beyond \in [len .. size - 1 -> Candidates(MaxSize)] :
              uniq' = IsUniquePermutation(size, hp, len, beyond)
    /\ UNCHANGED <<eigen_mat, h_permute, mat, etree, chol, memo>>

\* the caller has read the result
Validated ==
    /\ uniq.pc = "done"
    /\ uniq' = NoUniq
    /\ UNCHANGED <<eigen_mat, h_permute, mat, etree, chol, memo>>

NextValidate == Validate \/ ValidateShort \/ Validated

SpecValidate == Init /\ [][NextValidate]_vars

\* ------------------------------------------- the sweep, one step at a time
\* row pointers of an n-row CSR matrix with k stored entries
RowPointers(n, k) ==
    {rp \in [0 .. n -> 0 .. k] :
        /\ rp[0] = 0
        /\ rp[n] = k
        /\ \A a \in 0 .. n - 1 : rp[a] <= rp[a + 1]}

\* lines 94-99: the call starts, on any CSR matrix of order 1 .. MaxSweepN
\* with at most MaxSweepNnz stored entries: valid row pointers, column
\* indices in [0, n), symmetric or not, sorted or not, repeated column
\* indices allowed
SweepBegin ==
    /\ etree.pc = "none"
    /\ NoInput
    /\ \E n \in 1 .. MaxSweepN, k \in 0 .. MaxSweepNnz :
         \E rp \in RowPointers(n, k), ci \in [0 .. k - 1 -> 0 .. n - 1] :
           /\ mat' = [rows |-> n, row_ptr |-> rp, col_idx |-> ci]
           /\ etree' = FreshLocals(n)
    /\ UNCHANGED <<eigen_mat, h_permute, chol, memo, uniq>>

\* lines 101-108 and 129
SweepRow ==
    /\ etree.pc = "row"
    /\ etree' = RowStep(mat, etree)
    /\ UNCHANGED <<eigen_mat, h_permute, mat, chol, memo, uniq>>

\* lines 110-113
SweepEntry ==
    /\ etree.pc = "entry"
    /\ etree' = EntryStep(mat, etree)
    /\ UNCHANGED <<eigen_mat, h_permute, mat, chol, memo, uniq>>

\* lines 115-122
SweepWalk ==
    /\ etree.pc = "walk"
    /\ etree' = WalkStep(etree)
    /\ UNCHANGED <<eigen_mat, h_permute, mat, chol, memo, uniq>>

\* the call has returned; its frame and its input are dropped
SweepEnd ==
    /\ etree.pc = "done"
    /\ NoInput
    /\ mat' = NoMatrix
    /\ etree' = NoFrame
    /\ UNCHANGED <<eigen_mat, h_permute, chol, memo, uniq>>

NextSweep == SweepBegin \/ SweepRow \/ SweepEntry \/ SweepWalk \/ SweepEnd

SpecSweep == Init /\ [][NextSweep]_vars

\* ------------------------------------------------------------------ claims
FastDone == etree.pc = "done"

OracleDone == chol.pc = "done"

OracleSucceeded == OracleDone /\ chol.info = "Success"

\* the stored strictly-lower entries of the counter's input
StoredBelowDiagonal ==
    Cardinality({e \in Relabel(eigen_mat.nz, h_permute) \cup
                        Mirror(Relabel(eigen_mat.nz, h_permute)) : e[2] < e[1]})

\* C1: whenever both paths have scored the same (M, P) and the oracle
\* succeeded, the counter's value on M relabeled by P equals the oracle's
\* value, which is 2 * (strictly-lower nonzeros of the natural-ordering
\* factor of the permuted matrix) + n
C1_CrossPathEquivalence ==
    (FastDone /\ OracleSucceeded) =>
        /\ etree.ret = chol.ret
        /\ etree.nnz = Cardinality(MatrixL(eigen_mat.rows, chol.permuted_mat))
                          - eigen_mat.rows
        /\ etree.ret = 2 * etree.nnz + eigen_mat.rows

\* both paths scored a non-identity permutation whose factor has fill-in
C1_Witness ==
    /\ FastDone
    /\ OracleSucceeded
    /\ h_permute # Identity(eigen_mat.rows)
    /\ etree.nnz > StoredBelowDiagonal
    /\ etree.ret = chol.ret

\* C3: under the identity permutation the fill count of either path is at
\* least the number of entries the matrix stores (both triangles and the
\* diagonal), which is the length of the counter input's col_idx
C3_NeverBelowStored ==
    (~NoInput /\ h_permute = Identity(eigen_mat.rows)) =>
        /\ FastDone => etree.ret >= mat.row_ptr[mat.rows]
        /\ OracleSucceeded => chol.ret >= mat.row_ptr[mat.rows]

C3_Witness ==
    /\ h_permute = Identity(eigen_mat.rows)
    /\ eigen_mat.rows >= 3
    /\ FastDone
    /\ OracleSucceeded
    /\ mat.row_ptr[mat.rows] > mat.rows
    /\ etree.ret > mat.row_ptr[mat.rows]

\* the value the oracle owes for its inputs when the factorization succeeds
OracleCount ==
    2 * (Cardinality(MatrixL(eigen_mat.rows,
                             PermuteSymmToFullSymm(eigen_mat.nz, h_permute)))
         - eigen_mat.rows) + eigen_mat.rows

\* C4: the oracle returns -1 exactly when the factorization failed and
\* 2 * (nnz(L) - n) + n otherwise, whether or not the export file opened;
\* the export is attempted once and the factorization run once, and a file
\* that does not open leaves a diagnostic and no file
C4_ReturnIgnoresExport ==
    OracleDone =>
        /\ (chol.ret = -1) <=> (chol.info # "Success")
        /\ chol.info = "Success" => chol.ret = OracleCount
        /\ chol.calls = <<"open", "compute">>
        /\ ~chol.is_open => (chol.file = {} /\ chol.cerr # <<>>)

\* the export failed, the factorization succeeded, and a count came back
C4_Witness ==
    /\ OracleDone
    /\ ~chol.is_open
    /\ chol.info = "Success"
    /\ chol.ret > eigen_mat.rows

DenseLowerStored ==
    /\ ~NoInput
    /\ eigen_mat.nz = StrictLower(eigen_mat.rows) \cup Diagonal(eigen_mat.rows)

DiagonalOnly == ~NoInput /\ eigen_mat.nz \subseteq Diagonal(eigen_mat.rows)

\* C7: a matrix with no off-diagonal entry scores n on both paths under
\* every permutation, and the counter ends with every parent -1, every
\* column count 0 and every node tagged only by its own row (no walk ran)
C7_DiagonalScoresN ==
    DiagonalOnly =>
        /\ FastDone =>
              /\ etree.ret = eigen_mat.rows
              /\ etree.nnz = 0
              /\ \A v \in 0 .. eigen_mat.rows - 1 :
                    /\ etree.parent[v] = -1
                    /\ etree.nonZerosPerCol[v] = 0
                    /\ etree.tags[v] = v
        /\ OracleSucceeded => chol.ret = eigen_mat.rows

C7_Witness ==
    /\ DiagonalOnly
    /\ eigen_mat.nz # {}
    /\ eigen_mat.rows >= 3
    /\ h_permute # Identity(eigen_mat.rows)
    /\ FastDone
    /\ OracleSucceeded

\* the path graph 0 - 1 - 2 - 3 with its diagonal, lower triangle
PathGraphLower == {<<1, 0>>, <<2, 1>>, <<3, 2>>} \cup Diagonal(4)

PathGraphStored ==
    /\ eigen_mat.rows = 4
    /\ LowerTriangle(eigen_mat.nz) = PathGraphLower
    /\ h_permute \in {Identity(eigen_mat.rows), Reversal(eigen_mat.rows)}

\* C8: the path graph of order 4 scores 10 = 4 + 2 * 3 under the identity
\* and under the reversal [3, 2, 1, 0]
C8_PathGraphScoresTen ==
    PathGraphStored =>
        /\ FastDone => etree.ret = 10
        /\ OracleSucceeded => chol.ret = 10

C8_Witness ==
    /\ PathGraphStored
    /\ h_permute = Reversal(eigen_mat.rows)
    /\ FastDone
    /\ OracleSucceeded

\* ------------------------------------------------- claims about the sweep
InCall == etree.pc \in {"row", "entry", "walk", "done"}

\* a step of the call in progress (not its start, not its end)
SameCall == etree.pc \in {"row", "entry", "walk"} /\ etree'.pc # "none"

\* the last row whose iteration has started
LastRow == IF etree.pc \in {"row", "done"} THEN etree.r - 1 ELSE etree.r

Nodes == 0 .. etree.size - 1

C9_Inv ==
    InCall =>
        /\ etree.nnz = SumTo(etree.nonZerosPerCol, etree.size)
        /\ \A v \in Nodes :
              etree.nonZerosPerCol[v] <= (IF LastRow > v THEN LastRow - v ELSE 0)

C9_Step ==
    SameCall =>
        \A v \in Nodes :
            /\ etree'.nonZerosPerCol[v] # etree.nonZerosPerCol[v] =>
                  /\ etree'.nonZerosPerCol[v] = etree.nonZerosPerCol[v] + 1
                  /\ etree'.nnz = etree.nnz + 1
                  /\ etree.pc = "walk"
                  /\ etree'.r = etree.r
                  /\ etree.tags[v] # etree.r
                  /\ etree'.tags[v] = etree.r
            /\ etree'.nnz # etree.nnz =>
                  \E w \in Nodes : etree'.nonZerosPerCol[w] # etree.nonZerosPerCol[w]
            /\ (v <= LastRow /\ etree.tags[v] = etree.r /\ etree'.r = etree.r) =>
                  etree'.tags[v] = etree.r

\* C9: during row r a node is counted (its column count and nnz go up by
\* one) only while it is not tagged r, and is tagged r by that step; a node
\* tagged r stays tagged r until the row ends, so each (row, node) pair is
\* counted at most once; nnz is always the sum of the column counts, and a
\* column count never exceeds the number of rows above it begun so far
C9_CountedOnce == []C9_Inv /\ [][C9_Step]_vars

\* a walk reaches a node below r that this row has already counted
C9_Witness ==
    /\ etree.pc = "walk"
    /\ etree.c < etree.r
    /\ etree.tags[etree.c] = etree.r
    /\ etree.nonZerosPerCol[etree.c] >= 2
    /\ etree.nnz >= 3

\* the distance of the sweep from its end, compared lexicographically
Rank(s) ==
    CASE s.pc = "row"   -> <<s.size - s.r, mat.row_ptr[mat.rows] + 1, 0>>
      [] s.pc = "entry" -> <<s.size - s.r, s.end - s.i, s.size + 1>>
      [] s.pc = "walk"  -> <<s.size - s.r, s.end - s.i, s.r - s.c>>
      [] OTHER          -> <<-1, 0, 0>>

LexLess(a, b) ==
    \/ a[1] < b[1]
    \/ a[1] = b[1] /\ a[2] < b[2]
    \/ a[1] = b[1] /\ a[2] = b[2] /\ a[3] < b[3]

C10_Inv ==
    InCall =>
        /\ etree.r \in 0 .. etree.size
        /\ etree.pc = "walk" => etree.c \in 0 .. etree.r
        /\ etree.pc \in {"entry", "walk"} =>
              (etree.r < etree.size /\ etree.i <= etree.end)
        /\ etree.pc = "walk" => etree.i < etree.end
        /\ \A v \in Nodes :
              IF v > LastRow
              THEN /\ etree.parent[v] = 0
                   /\ etree.tags[v] = 0
                   /\ etree.nonZerosPerCol[v] = 0
              ELSE /\ etree.parent[v] = -1 \/ etree.parent[v] \in v + 1 .. LastRow
                   /\ etree.tags[v] \in v .. LastRow

C10_Step ==
    SameCall =>
        /\ \A v \in Nodes :
              (v <= LastRow /\ etree.parent[v] # -1) =>
                  etree'.parent[v] = etree.parent[v]
        /\ \A v \in Nodes :
              etree'.parent[v] # etree.parent[v] =>
                  \/ etree.pc = "row" /\ v = etree.r /\ etree'.parent[v] = -1
                  \/ etree.pc = "walk" /\ v = etree.c /\ etree'.parent[v] = etree.r
        /\ (etree.pc = "walk" /\ etree'.pc = "walk") => etree'.c > etree.c
        /\ LexLess(Rank(etree'), Rank(etree))

\* C10: the slots of node v keep their constructed value until iteration
\* v starts; while row r is processed the walk only uses indices in [0, r];
\* parent[v] is -1 or a row in (v, r] and, once a row, never changes; a walk
\* moves to strictly larger nodes; every step brings the sweep strictly
\* closer to its end, so it terminates
C10_SlotsAndWalks == []C10_Inv /\ [][C10_Step]_vars

\* a walk has climbed from a node to its parent set by an earlier row
C10_Witness ==
    /\ etree.pc = "walk"
    /\ etree.c > 0
    /\ etree.c < etree.r
    /\ etree.tags[etree.c] # etree.r
    /\ \E v \in 0 .. etree.c - 1 :
          etree.parent[v] = etree.c /\ etree.tags[v] = etree.r

ValidateDone == uniq.pc = "done"

\* the first n entries of the array are a bijection on [0, n)
BijectionOnPrefix(hp, n) ==
    \A v \in 0 .. n - 1 : Cardinality({k \in 0 .. n - 1 : hp[k] = v}) = 1

\* C2 as stated: true exactly for arrays of length size that are a
\* bijection on [0, size), false for a wrong length
C2_AsStated ==
    ValidateDone =>
        (uniq.ret <=> (uniq.len = uniq.size
                        /\ BijectionOnPrefix(uniq.h_permute, uniq.size)))

\* C2 amended: when the array holds at least size entries, the result is
\* true exactly when its first size entries are a bijection on [0, size);
\* a duplicate or an out-of-range value among them gives false
C2_PrefixBijection ==
    (ValidateDone /\ uniq.len >= uniq.size) =>
        /\ uniq.ret <=> BijectionOnPrefix(uniq.h_permute, uniq.size)
        /\ uniq.ret <=> uniq.permute = [k \in 1 .. uniq.size |-> k - 1]
        /\ (\E k \in 0 .. uniq.size - 1 :
               uniq.h_permute[k] \notin 0 .. uniq.size - 1) => ~uniq.ret
        /\ (\E j, k \in 0 .. uniq.size - 1 :
               j # k /\ uniq.h_permute[j] = uniq.h_permute[k]) => ~uniq.ret

\* an unsorted permutation of the right length is accepted
C2_Witness ==
    /\ ValidateDone
    /\ uniq.len = uniq.size
    /\ uniq.size >= 3
    /\ uniq.ret
    /\ uniq.h_permute[0] # 0

====
